---- MODULE Spec2Model ----
(***************************************************************************)
(* Model of lib/modeling/fast_rcnn.py (zero_shot_hoi): the single-image    *)
(* HOI candidate filter, the HoiOutputs loss / diagnostics / probability   *)
(* split, and the positive-weight estimator of HoiOutputLayers.            *)
(*                                                                         *)
(* Conventions.                                                            *)
(*  - A tensor is a record [dims, data]: dims is its shape, data its       *)
(*    elements in row-major order.  Indices are 0-based as in the source;  *)
(*    only positions inside a TLA+ sequence are 1-based.                   *)
(*  - Scores are fixed-point integers: box scores in tenths, action        *)
(*    probabilities in hundredths, so a fused score and a threshold are in *)
(*    units of 1/10000.  Products are exact (no float rounding modelled).  *)
(*  - A Python exception is the value Raise(line): the source line that    *)
(*    raises.                                                              *)
(***************************************************************************)
EXTENDS Integers, Sequences, FiniteSets, TLC

VARIABLES pc, call, ret, storage

vars == <<pc, call, ret, storage>>

\* ------------------------------------------------------------------------
\* Bounds of the model
\* ------------------------------------------------------------------------
MaxBoxes == 2
MaxActions == 2
MaxCells == 4
MaxTopk == 2
MaxImages == 2
MaxLabels == 3
MaxDatasets == 2

\* ------------------------------------------------------------------------
\* Generic helpers
\* ------------------------------------------------------------------------
Raise(line) == [raised |-> TRUE, line |-> line]

Min2(a, b) == IF a <= b THEN a ELSE b

Max2(a, b) == IF a >= b THEN a ELSE b

RECURSIVE Prod(_)
Prod(s) == IF s = <<>> THEN 1 ELSE Head(s) * Prod(Tail(s))

RECURSIVE SumSeq(_)
SumSeq(s) == IF s = <<>> THEN 0 ELSE Head(s) + SumSeq(Tail(s))

\* ------------------------------------------------------------------------
\* torch tensors: shape, row-major addressing, broadcasting
\* ------------------------------------------------------------------------
Tensor(dims, data) == [dims |-> dims, data |-> data]

numel(t) == Prod(t.dims)

Stride(dims, a) == Prod(SubSeq(dims, a + 1, Len(dims)))

\* flat offset -> index tuple (row-major), the order nonzero() reports in
Unravel(f, dims) == [a \in 1..Len(dims) |-> (f \div Stride(dims, a)) % dims[a]]

\* index tuple -> flat offset
Ravel(idx, dims) == SumSeq([a \in 1..Len(dims) |-> idx[a] * Stride(dims, a)])

Elem(t, idx) == t.data[Ravel(idx, t.dims) + 1]

\* shapes are aligned on the right and padded with 1 on the left
PadLeft(dims, n) ==
    [a \in 1..n |-> IF a <= n - Len(dims) THEN 1 ELSE dims[a - (n - Len(dims))]]

Broadcastable(d1, d2) ==
    LET n == Max2(Len(d1), Len(d2))
        p1 == PadLeft(d1, n)
        p2 == PadLeft(d2, n)
    IN  \A a \in 1..n : p1[a] = p2[a] \/ p1[a] = 1 \/ p2[a] = 1

BroadcastDims(d1, d2) ==
    LET n == Max2(Len(d1), Len(d2))
        p1 == PadLeft(d1, n)
        p2 == PadLeft(d2, n)
    IN  [a \in 1..n |-> IF p1[a] = 1 THEN p2[a] ELSE p1[a]]

\* the index of the operand element that a broadcast result element reads
Proj(idx, dims) ==
    [a \in 1..Len(dims) |->
        IF dims[a] = 1 THEN 0 ELSE idx[a + (Len(idx) - Len(dims))]]

\* elementwise product t1 * t2 of two broadcastable tensors
Mul(t1, t2) ==
    LET d == BroadcastDims(t1.dims, t2.dims)
    IN  Tensor(d, [f \in 1..Prod(d) |->
            LET idx == Unravel(f - 1, d)
            IN  Elem(t1, Proj(idx, t1.dims)) * Elem(t2, Proj(idx, t2.dims))])

\* x[:, None].repeat(1, k) of a 1-D tensor x
RepeatColumns(x, k) ==
    Tensor(<<x.dims[1], k>>,
           [f \in 1..(x.dims[1] * k) |-> x.data[((f - 1) \div k) + 1]])

\* mask.nonzero(): the index tuples of the true elements, in row-major order
Nonzero(dims, mask) ==
    LET all == [f \in 1..Prod(dims) |-> f]
        hit(f) == mask[f]
        kept == SelectSeq(all, hit)
    IN  [n \in 1..Len(kept) |-> Unravel(kept[n] - 1, dims)]

\* t[mask]: the selected elements, in row-major order
MaskedSelect(t, mask) ==
    LET all == [f \in 1..numel(t) |-> f]
        hit(f) == mask[f]
        kept == SelectSeq(all, hit)
    IN  [n \in 1..Len(kept) |-> t.data[kept[n]]]

\* indexing a length-n container with a tensor of indices is an IndexError
\* as soon as one index is out of range
IndexInRange(rows, inds) == \A n \in 1..Len(inds) : inds[n] < Len(rows)

Gather(rows, inds) == [n \in 1..Len(inds) |-> rows[inds[n] + 1]]

Column(inds, c) == [n \in 1..Len(inds) |-> inds[n][c + 1]]

\* torch.argsort(scores, descending=True): the sort is not stable, so the
\* order among equal scores is any of the orders the kernel may produce
ArgsortDescending(vals) ==
    LET n == Len(vals)
    IN  { p \in [1..n -> 0..(n - 1)] :
            /\ \A a, b \in 1..n : a # b => p[a] # p[b]
            /\ \A a, b \in 1..n : a < b => vals[p[a] + 1] >= vals[p[b] + 1] }

\* ------------------------------------------------------------------------
\* interaction_inference_single_image (fast_rcnn.py lines 15-75)
\* ------------------------------------------------------------------------
\* line 47: person_box_scores * object_box_scores (elementwise, broadcast)
box_scores(a) == Mul(a.person_box_scores, a.object_box_scores)

\* line 48, right operand: box_scores[:, None].repeat(1, hoi_scores.size(-1))
box_weights(a) ==
    RepeatColumns(box_scores(a), a.hoi_scores.dims[Len(a.hoi_scores.dims)])

\* line 48: the reweighted interaction scores
scores(a) == Mul(a.hoi_scores, box_weights(a))

\* mutant of filter_mask: the comparison is not strict
filter_mask_not_strict(sc, score_thresh) ==
    [f \in 1..numel(sc) |-> sc.data[f] >= score_thresh]

\* line 51: scores > score_thresh
filter_mask(sc, score_thresh) ==
    [f \in 1..numel(sc) |-> sc.data[f] > score_thresh]

\* line 54
filter_inds(sc, mask) == Nonzero(sc.dims, mask)

\* lines 69-75: the Instances that is returned
Instances(image_shape, pb, ob, oc, ac, sc) ==
    [raised |-> FALSE, image_size |-> image_shape,
     person_boxes |-> pb, object_boxes |-> ob, object_classes |-> oc,
     action_classes |-> ac, scores |-> sc]

\* lines 46-60: fuse, threshold, materialise; an exception ends the call
Selected(a) ==
    IF ~Broadcastable(a.person_box_scores.dims, a.object_box_scores.dims)
    THEN Raise(47)
    ELSE IF ~Broadcastable(a.hoi_scores.dims, box_weights(a).dims)
    THEN Raise(48)
    ELSE LET sc == scores(a)
             mask == filter_mask(sc, a.score_thresh)
             inds == filter_inds(sc, mask)
             first == Column(inds, 0)
         IN  IF ~IndexInRange(a.person_boxes, first) THEN Raise(56)
             ELSE IF ~IndexInRange(a.object_boxes, first) THEN Raise(57)
             ELSE IF ~IndexInRange(a.object_box_classes, first) THEN Raise(58)
             ELSE Instances(a.image_shape,
                            Gather(a.person_boxes, first),
                            Gather(a.object_boxes, first),
                            Gather(a.object_box_classes, first),
                            Column(inds, 1),
                            MaskedSelect(sc, mask))

\* line 62: the condition under which the result is sorted and cut
TruncationApplies(topk_per_image, n) == topk_per_image > 0 /\ topk_per_image < n

\* lines 63-67: keep = argsort(...)[:topk]; every field is indexed by keep
TopK(sel, keep) ==
    Instances(sel.image_size,
              Gather(sel.person_boxes, keep), Gather(sel.object_boxes, keep),
              Gather(sel.object_classes, keep), Gather(sel.action_classes, keep),
              Gather(sel.scores, keep))

\* the results the call can produce (one per order argsort may choose)
interaction_inference_single_image(a) ==
    LET sel == Selected(a)
    IN  IF sel.raised THEN {sel}
        ELSE IF TruncationApplies(a.topk_per_image, Len(sel.scores))
        THEN { TopK(sel, SubSeq(keep, 1, a.topk_per_image)) :
                 keep \in ArgsortDescending(sel.scores) }
        ELSE {sel}

\* ------------------------------------------------------------------------
\* Inputs of the candidate filter
\* ------------------------------------------------------------------------
PersonScoreVals == {1, 9}

ObjectScoreVals == {8, 10}

HoiScoreVals == {5, 90}

ThreshVals == {5000, 6480}

\* object j carries class 3 + 4j: distinct objects, distinct classes
ObjectClass(j) == 3 + 4 * j

ImageShape == <<4, 3>>

\* hoi_scores is (N, M, K) in the docstring (lines 32-37) and (R, K), one row
\* per person-object pair with N = M = R, where HoiOutputs.inference calls the
\* function (lines 251-266)
FilterShapes ==
    { [n |-> n, m |-> m, dims |-> <<n, m, k>>] :
        n \in 0..MaxBoxes, m \in 0..MaxBoxes, k \in 1..MaxActions }
    \cup { [n |-> r, m |-> r, dims |-> <<r, k>>] :
        r \in 0..MaxBoxes, k \in 1..MaxActions }

IsPairLayout(a) == Len(a.hoi_scores.dims) = 2

InitFilter ==
    /\ pc = "call"
    /\ ret = "none"
    /\ storage = <<>>
    /\ \E sh \in FilterShapes :
         /\ Prod(sh.dims) <= MaxCells
         /\ \E ps \in [1..sh.n -> PersonScoreVals],
               os \in [1..sh.m -> ObjectScoreVals],
               hs \in [1..Prod(sh.dims) -> HoiScoreVals],
               th \in ThreshVals,
               topk \in (-1)..MaxTopk :
              call = [image_shape |-> ImageShape,
                      person_boxes |-> [i \in 1..sh.n |-> <<"person", i - 1>>],
                      object_boxes |-> [j \in 1..sh.m |-> <<"object", j - 1>>],
                      person_box_scores |-> Tensor(<<sh.n>>, ps),
                      object_box_scores |-> Tensor(<<sh.m>>, os),
                      object_box_classes |-> [j \in 1..sh.m |-> ObjectClass(j - 1)],
                      hoi_scores |-> Tensor(sh.dims, hs),
                      score_thresh |-> th,
                      topk_per_image |-> topk]

\* one call of interaction_inference_single_image, start to return
Inference ==
    /\ pc = "call"
    /\ \E r \in interaction_inference_single_image(call) : ret' = r
    /\ pc' = "done"
    /\ UNCHANGED <<call, storage>>

NextFilter == Inference

SpecFilter == InitFilter /\ [][NextFilter]_vars

\* ------------------------------------------------------------------------
\* What the claims speak of: (person i, object j, action k) triples and
\* their fused score person_scores[i] * object_scores[j] * hoi_scores[i,j,k]
\* ------------------------------------------------------------------------
NumPersons(a) == Len(a.person_boxes)

NumObjects(a) == Len(a.object_boxes)

NumActions(a) == a.hoi_scores.dims[Len(a.hoi_scores.dims)]

\* in the pair layout row r pairs person r with object r
Triples(a) ==
    IF IsPairLayout(a)
    THEN { <<r, r, k>> : r \in 0..(NumPersons(a) - 1), k \in 0..(NumActions(a) - 1) }
    ELSE { <<i, j, k>> : i \in 0..(NumPersons(a) - 1), j \in 0..(NumObjects(a) - 1),
                         k \in 0..(NumActions(a) - 1) }

HoiScore(a, t) ==
    IF IsPairLayout(a) THEN Elem(a.hoi_scores, <<t[1], t[3]>>)
    ELSE Elem(a.hoi_scores, t)

FusedScore(a, t) ==
    a.person_box_scores.data[t[1] + 1] * a.object_box_scores.data[t[2] + 1]
        * HoiScore(a, t)

Surviving(a) == { t \in Triples(a) : FusedScore(a, t) > a.score_thresh }

\* the five fields a triple should be emitted with
TripleRow(a, t) ==
    <<a.person_boxes[t[1] + 1], a.object_boxes[t[2] + 1],
      a.object_box_classes[t[2] + 1], t[3], FusedScore(a, t)>>

\* the five fields of the n-th emitted candidate
ResultRow(r, n) ==
    <<r.person_boxes[n], r.object_boxes[n], r.object_classes[n],
      r.action_classes[n], r.scores[n]>>

Returned == pc = "done" /\ ~ret.raised

\* C1: every candidate the filter returns carries a score strictly greater
\* than the threshold, with or without top-k truncation; a candidate whose
\* score equals the threshold is not returned.
C1_ScoresExceedThreshold ==
    Returned => \A n \in 1..Len(ret.scores) : ret.scores[n] > call.score_thresh

\* C1 witness: a truncated, non-empty result for an input that holds a
\* candidate exactly at the threshold
C1_Witness ==
    /\ Returned
    /\ IsPairLayout(call)
    /\ TruncationApplies(call.topk_per_image, Cardinality(Surviving(call)))
    /\ Len(ret.scores) = call.topk_per_image
    /\ \E t \in Triples(call) : FusedScore(call, t) = call.score_thresh

\* C2 (original claim, on the pair layout the caller uses): with C surviving
\* candidates, topk = K' >= 0 gives at most min(K', C) results, K' = 0
\* included, and K' < 0 gives exactly C.
C2_TopkBoundsLength ==
    (Returned /\ IsPairLayout(call)) =>
        LET C == Cardinality(Surviving(call))
            K == call.topk_per_image
        IN  /\ K >= 0 => Len(ret.scores) <= Min2(K, C)
            /\ K < 0 => Len(ret.scores) = C

\* C3 (original claim, on the pair layout): when topk is smaller than the
\* number of surviving candidates, exactly topk candidates are returned, in
\* descending score order, none scoring below a dropped survivor.
C3_TopkKeepsBest ==
    (Returned /\ IsPairLayout(call) /\ call.topk_per_image >= 0
        /\ call.topk_per_image < Cardinality(Surviving(call))) =>
        /\ Len(ret.scores) = call.topk_per_image
        /\ \A x, y \in 1..Len(ret.scores) : x < y => ret.scores[x] >= ret.scores[y]
        /\ \A t \in Surviving(call) :
              (\A n \in 1..Len(ret.scores) : ResultRow(ret, n) # TripleRow(call, t))
                  => \A n \in 1..Len(ret.scores) : ret.scores[n] >= FusedScore(call, t)

\* C4 (original claim): every emitted candidate is one surviving triple
\* (i, j, k): person box i, object box j, the class of object j, action k
\* and the score person_scores[i] * object_scores[j] * hoi_scores[i,j,k].
C4_FieldsAligned ==
    Returned =>
        \A n \in 1..Len(ret.scores) :
            \E t \in Surviving(call) : ResultRow(ret, n) = TripleRow(call, t)

\* scenario A of the specification: persons 0.9 and 0.1, one object 0.8,
\* hoi_scores of shape (2,1,2) = [[[0.9,0.05]],[[0.9,0.05]]], threshold 0.5
IsScenarioA(a) ==
    /\ a.person_box_scores = Tensor(<<2>>, <<9, 1>>)
    /\ a.object_box_scores = Tensor(<<1>>, <<8>>)
    /\ a.hoi_scores = Tensor(<<2, 1, 2>>, <<90, 5, 90, 5>>)
    /\ a.score_thresh = 5000

\* C5 (original claim, its general part on the pair layout, its example as
\* given): without truncation the result is exactly the set of triples whose
\* fused score exceeds the threshold, each once; in scenario A that is the
\* single triple (person 0, object 0, action 0).
C5_ExactSurvivors ==
    (pc = "done" /\ call.topk_per_image < 0) =>
        /\ IsPairLayout(call) =>
              /\ ~ret.raised
              /\ Len(ret.scores) = Cardinality(Surviving(call))
              /\ \A t \in Surviving(call) :
                    Cardinality({ n \in 1..Len(ret.scores) :
                                    ResultRow(ret, n) = TripleRow(call, t) }) = 1
        /\ IsScenarioA(call) =>
              ret = Instances(call.image_shape, <<call.person_boxes[1]>>,
                              <<call.object_boxes[1]>>,
                              <<call.object_box_classes[1]>>, <<0>>, <<6480>>)

\* C10 (original claim): with no person box, or no object box, or no fused
\* score above the threshold, the filter returns the empty result for the
\* image, whatever topk is, and never raises.
C10_DegenerateEmpty ==
    (pc = "done" /\ (NumPersons(call) = 0 \/ NumObjects(call) = 0
                       \/ Surviving(call) = {})) =>
        ret = Instances(call.image_shape, <<>>, <<>>, <<>>, <<>>, <<>>)

\* ------------------------------------------------------------------------
\* HoiOutputs (fast_rcnn.py lines 136-269)
\* ------------------------------------------------------------------------
\* A loss value is a fraction [num, den] of thousandths; den = 0 is NaN,
\* the mean of an empty tensor (0/0).
Value(num, den) == [num |-> num, den |-> den]

Zero == Value(0, 1)

IsNaN(v) == v.den = 0

\* 0.0 * v
TimesZero(v) == IF IsNaN(v) THEN v ELSE Zero

LogitVals == {-1, 0, 1}

\* softplus(x) = log(1 + exp(x)) in thousandths, for the logits of the model
Softplus(x) == CASE x = -1 -> 313 [] x = 0 -> 693 [] x = 1 -> 1313

\* torch.sigmoid(x) in thousandths, for the logits of the model
Sigmoid(x) == CASE x = -1 -> 269 [] x = 0 -> 500 [] x = 1 -> 731

\* cat([...], dim=0) of per-image row lists
RECURSIVE cat(_)
cat(parts) == IF parts = <<>> THEN <<>> ELSE Head(parts) \o cat(Tail(parts))

\* Tensor.flatten() of a list of rows
flatten(rows) == cat(rows)

\* lines 151-170: HoiOutputs.__init__
HoiOutputs(pred_class_logits, hopairs, pos_weights) ==
    [num_preds_per_image |-> [i \in 1..Len(hopairs) |-> hopairs[i].len],
     pred_class_logits |-> pred_class_logits,
     pos_weights |-> pos_weights,
     image_shapes |-> [i \in 1..Len(hopairs) |-> hopairs[i].image_size],
     has_gt_actions |-> Len(hopairs) > 0 /\ hopairs[1].has_gt_actions,
     gt_actions |-> IF Len(hopairs) > 0 /\ hopairs[1].has_gt_actions
                    THEN cat([i \in 1..Len(hopairs) |-> hopairs[i].gt_actions])
                    ELSE <<>>,
     no_instances |-> Len(hopairs) = 0]

\* F.binary_cross_entropy_with_logits, elementwise:
\* pos_weight * y * softplus(-x) + (1 - y) * softplus(x)
BCEElement(x, y, pos_weight) ==
    pos_weight * y * Softplus(-x) + (1 - y) * Softplus(x)

\* the elementwise losses of an (R, K) logits tensor against R label rows
BCEElements(logits, targets, pos_weights) ==
    [f \in 1..numel(logits) |->
        LET r == ((f - 1) \div logits.dims[2]) + 1
            k == ((f - 1) % logits.dims[2]) + 1
        IN  BCEElement(logits.data[f], targets[r][k], pos_weights[k])]

\* reduction="sum"
ReduceSum(elements) == Value(SumSeq(elements), 1)

\* reduction="mean": the sum over the element count, NaN for no element
ReduceMean(elements) == Value(SumSeq(elements), Len(elements))

CountTrue(flags) == Cardinality({ f \in 1..Len(flags) : flags[f] })

\* lines 176-187 of _log_accuracy: the counts the metrics are made of
Accuracy(self) ==
    LET gt_actions == flatten(self.gt_actions)
        pred_classes == [f \in 1..numel(self.pred_class_logits) |->
                            Sigmoid(self.pred_class_logits.data[f])]
        n == Len(gt_actions)
    IN  [num_instances |-> n,
         num_fg |-> CountTrue([f \in 1..n |-> gt_actions[f] > 0]),
         num_false_negative |->
             CountTrue([f \in 1..n |-> gt_actions[f] > 0 /\ pred_classes[f] <= 500]),
         num_accurate |->
             CountTrue([f \in 1..n |->
                 (IF pred_classes[f] > 500 THEN 1 ELSE 0) = gt_actions[f]]),
         fg_num_accurate |->
             CountTrue([f \in 1..n |-> gt_actions[f] > 0 /\ pred_classes[f] > 500])]

\* lines 190-194: the put_scalar calls, in order
Scalars(acc) ==
    IF acc.num_instances > 0
    THEN <<[name |-> "action/cls_accuracy",
            value |-> Value(acc.num_accurate, acc.num_instances)]>>
         \o (IF acc.num_fg > 0
             THEN <<[name |-> "action/fg_cls_accuracy",
                     value |-> Value(acc.fg_num_accurate, acc.num_fg)],
                    [name |-> "action/false_negative",
                     value |-> Value(acc.num_false_negative, acc.num_fg)]>>
             ELSE <<>>)
    ELSE <<>>

\* mutant of log_accuracy: a missing or failing sink is swallowed
log_accuracy_suppressed(self, sink) ==
    IF ~self.has_gt_actions THEN [raised |-> TRUE, line |-> 176, puts |-> <<>>]
    ELSE [raised |-> FALSE,
          puts |-> IF sink = "ok" THEN Scalars(Accuracy(self)) ELSE <<>>]

\* lines 172-194: HoiOutputs._log_accuracy.  sink is the state of the event
\* storage: "ok", "absent" (get_event_storage raises, line 189) or "failing"
\* (put_scalar raises).  Nothing in the method catches an exception.
log_accuracy(self, sink) ==
    IF ~self.has_gt_actions THEN [raised |-> TRUE, line |-> 176, puts |-> <<>>]
    ELSE IF sink = "absent" THEN [raised |-> TRUE, line |-> 189, puts |-> <<>>]
    ELSE LET puts == Scalars(Accuracy(self))
         IN  IF sink = "failing" /\ puts # <<>>
             THEN [raised |-> TRUE, line |-> 191, puts |-> <<>>]
             ELSE [raised |-> FALSE, puts |-> puts]

\* lines 196-216: HoiOutputs.binary_cross_entropy_with_logits; the result
\* has the storage writes of _log_accuracy beside the returned value
binary_cross_entropy_with_logits(self, sink) ==
    IF self.no_instances
    THEN [raised |-> FALSE, puts |-> <<>>,
          value |-> TimesZero(ReduceSum(BCEElements(
                        self.pred_class_logits,
                        [r \in 1..self.pred_class_logits.dims[1] |->
                            [k \in 1..self.pred_class_logits.dims[2] |-> 0]],
                        [k \in 1..self.pred_class_logits.dims[2] |-> 1])))]
    ELSE LET log == log_accuracy(self, sink)
         IN  IF log.raised THEN log
             ELSE [raised |-> FALSE, puts |-> log.puts,
                   value |-> ReduceMean(BCEElements(self.pred_class_logits,
                                 self.gt_actions, self.pos_weights))]

\* lines 218-227: HoiOutputs.losses
losses(self, sink) ==
    LET bce == binary_cross_entropy_with_logits(self, sink)
    IN  IF bce.raised THEN [raised |-> TRUE, line |-> bce.line, puts |-> bce.puts]
        ELSE [raised |-> FALSE, puts |-> bce.puts, loss_action |-> bce.value]

\* ------------------------------------------------------------------------
\* A training or inference batch handed to HoiOutputs, and losses()
\* ------------------------------------------------------------------------
PosWeightVals == {1, 3}

SinkStates == {"ok", "absent", "failing"}

\* the rows of image i within the flat batch, given the per-image counts
Offset(counts, i) == SumSeq(SubSeq(counts, 1, i - 1))

RowsOf(rows, counts, i) ==
    SubSeq(rows, Offset(counts, i) + 1, Offset(counts, i) + counts[i])

\* one Instances of pairs per image (lines 146-149)
Hopairs(counts, has_gt, gt_rows) ==
    [i \in 1..Len(counts) |->
        [len |-> counts[i], image_size |-> ImageShape,
         has_gt_actions |-> has_gt,
         gt_actions |-> IF has_gt THEN RowsOf(gt_rows, counts, i) ELSE <<>>]]

\* batches whose logits have one row per pair, as the constructor requires
InitLoss ==
    /\ pc = "call"
    /\ ret = "none"
    /\ storage = <<>>
    /\ \E G \in 0..MaxImages, K \in 1..MaxActions :
       \E counts \in [1..G -> 0..MaxBoxes] :
         /\ SumSeq(counts) * K <= MaxLabels
         /\ \E data \in [1..(SumSeq(counts) * K) -> LogitVals],
               has_gt \in BOOLEAN,
               w \in PosWeightVals,
               sink \in SinkStates :
            \E gt_rows \in IF has_gt
                           THEN [1..SumSeq(counts) -> [1..K -> {0, 1}]]
                           ELSE {<<>>} :
              call = [hopairs |-> Hopairs(counts, has_gt, gt_rows),
                      sink |-> sink,
                      self |-> HoiOutputs(Tensor(<<SumSeq(counts), K>>, data),
                                          Hopairs(counts, has_gt, gt_rows),
                                          [k \in 1..K |-> w])]

\* HoiOutputs(...).losses(), start to return (or to the exception)
Losses ==
    /\ pc = "call"
    /\ LET out == losses(call.self, call.sink)
       IN  /\ storage' = storage \o out.puts
           /\ ret' = IF out.raised THEN Raise(out.line)
                     ELSE [raised |-> FALSE, loss_action |-> out.loss_action]
    /\ pc' = "done"
    /\ UNCHANGED call

NextLoss == Losses

SpecLoss == InitLoss /\ [][NextLoss]_vars

NumImages(c) == Len(c.hopairs)

TotalPairs(c) == SumSeq([i \in 1..Len(c.hopairs) |-> c.hopairs[i].len])

IsTraining(c) == \A i \in 1..Len(c.hopairs) : c.hopairs[i].has_gt_actions

\* the weighted binary cross-entropy of the batch, averaged over all labels:
\* what losses() returns when the diagnostics go through
MeanLoss(c) ==
    LET K == c.self.pred_class_logits.dims[2]
        cells == { <<r, k>> : r \in 1..TotalPairs(c), k \in 1..K }
        term(rk) == BCEElement(c.self.pred_class_logits.data[(rk[1] - 1) * K + rk[2]],
                               c.self.gt_actions[rk[1]][rk[2]],
                               c.self.pos_weights[rk[2]])
        RECURSIVE Total(_)
        Total(S) == IF S = {} THEN 0
                    ELSE LET x == CHOOSE y \in S : TRUE
                         IN  term(x) + Total(S \ {x})
    IN  Value(Total(cells), Cardinality(cells))

\* C6 (original claim, for a training batch with a working metrics sink): a
\* batch that holds no candidate pair at all - no image, or images that all
\* have zero pairs - gives loss_action exactly 0, not NaN and not an error.
C6_ZeroPairsZeroLoss ==
    (pc = "done" /\ IsTraining(call) /\ call.sink = "ok" /\ TotalPairs(call) = 0) =>
        /\ ~ret.raised
        /\ ret.loss_action = Zero

sigmoid(t) == Tensor(t.dims, [f \in 1..numel(t) |-> Sigmoid(t.data[f])])

\* rows first .. first + n - 1 (0-based) of an (R, K) tensor
Rows(t, first, n) ==
    Tensor(<<n, t.dims[2]>>,
           SubSeq(t.data, first * t.dims[2] + 1, (first + n) * t.dims[2]))

\* mutant of split: no check of the sizes; a slice ends where the rows end
split_unchecked(t, sizes) ==
    [raised |-> FALSE,
     parts |-> [i \in 1..Len(sizes) |->
        LET first == Min2(Offset(sizes, i), t.dims[1])
            last == Min2(Offset(sizes, i) + sizes[i], t.dims[1])
        IN  Rows(t, first, last - first)]]

\* Tensor.split(sizes, dim=0): the sizes must sum to the row count, else
\* the call raises
split(t, sizes) ==
    IF SumSeq(sizes) # t.dims[1] THEN [raised |-> TRUE]
    ELSE [raised |-> FALSE,
          parts |-> [i \in 1..Len(sizes) |-> Rows(t, Offset(sizes, i), sizes[i])]]

\* lines 236-237
predict_probs(self) ==
    LET out == split(sigmoid(self.pred_class_logits), self.num_preds_per_image)
    IN  IF out.raised THEN Raise(237)
        ELSE [raised |-> FALSE, probs |-> out.parts]

\* logits and image lists of any sizes: nothing in the constructor relates
\* the row count of the logits to the per-image pair counts
InitProbs ==
    /\ pc = "call"
    /\ ret = "none"
    /\ storage = <<>>
    /\ \E G \in 0..MaxImages, K \in 1..MaxActions, R \in 0..(MaxImages * MaxBoxes) :
       \E counts \in [1..G -> 0..MaxBoxes] :
         /\ R * K <= MaxLabels
         /\ \E data \in [1..(R * K) -> LogitVals] :
              call = [hopairs |-> Hopairs(counts, FALSE, <<>>),
                      sink |-> "ok",
                      self |-> HoiOutputs(Tensor(<<R, K>>, data),
                                          Hopairs(counts, FALSE, <<>>),
                                          [k \in 1..K |-> 1])]

\* HoiOutputs(...).predict_probs(), start to return (or to the exception)
PredictProbs ==
    /\ pc = "call"
    /\ ret' = predict_probs(call.self)
    /\ pc' = "done"
    /\ UNCHANGED <<call, storage>>

NextProbs == PredictProbs

SpecProbs == InitProbs /\ [][NextProbs]_vars

\* C8: predict_probs gives image i exactly its num_preds_per_image[i]
\* consecutive rows of the flat probability array, so that the slices put
\* end to end in image order are the flat array again; when the pair counts
\* do not sum to the row count of the logits the call raises.
C8_SplitPartitions ==
    pc = "done" =>
        LET logits == call.self.pred_class_logits
            K == logits.dims[2]
            flat == [f \in 1..(logits.dims[1] * K) |-> Sigmoid(logits.data[f])]
        IN  IF TotalPairs(call) = logits.dims[1]
            THEN /\ ~ret.raised
                 /\ Len(ret.probs) = NumImages(call)
                 /\ \A i \in 1..NumImages(call) :
                       ret.probs[i].dims = <<call.hopairs[i].len, K>>
                 /\ cat([i \in 1..NumImages(call) |-> ret.probs[i].data]) = flat
            ELSE ret.raised

\* C8 witness: two images with one and two pairs, whose rows differ, split
\* without error
C8_Witness ==
    /\ pc = "done"
    /\ NumImages(call) = 2
    /\ call.hopairs[1].len = 1
    /\ call.hopairs[2].len = 2
    /\ ~ret.raised
    /\ call.self.pred_class_logits.data[1] # call.self.pred_class_logits.data[2]

\* ------------------------------------------------------------------------
\* HoiOutputLayers.from_config: the positive weights (lines 346-364)
\* ------------------------------------------------------------------------
\* Weights are exact fractions [num, den]; den = 0 is the float infinity
\* that 1. / 0. gives.  A dataset without recorded priors (None, or an empty
\* list: both are false in "if priors") has priors <<>>.
Frac(num, den) == [num |-> num, den |-> den]

FracLeq(x, y) == x.num * y.den <= y.num * x.den

FracEq(x, y) == x.num * y.den = y.num * x.den

FracAdd(x, y) == Frac(x.num * y.den + y.num * x.den, x.den * y.den)

\* 1. / x
Reciprocal(x) == Frac(x.den, x.num)

IsInf(x) == x.den = 0

\* torch.clamp(x, min=lo, max=hi) = min(max(x, lo), hi)
clamp(x, lo, hi) ==
    IF IsInf(x) THEN Frac(hi, 1)
    ELSE LET raised == IF FracLeq(x, Frac(lo, 1)) THEN Frac(lo, 1) ELSE x
         IN  IF FracLeq(Frac(hi, 1), raised) THEN Frac(hi, 1) ELSE raised

\* a recorded prior is a multiple of 1/12
PriorDen == 12

PriorNums == {0, 1, 4, 12}

\* mutant of pos_weights_per_dataset: the uniform weight of a dataset
\* without priors is clamped like a computed one
pos_weights_per_dataset_clamped(priors, num_classes, cfg) ==
    IF priors = <<>>
    THEN [k \in 1..num_classes |->
            clamp(Frac(1, 1), cfg.action_cls_weights[1], cfg.action_cls_weights[2])]
    ELSE [k \in 1..num_classes |->
            clamp(Reciprocal(Frac(priors[k] * cfg.ims_per_batch * cfg.batch_size_per_image,
                                  PriorDen)),
                  cfg.action_cls_weights[1], cfg.action_cls_weights[2])]

\* lines 351-361: what one dataset adds to pos_weights
pos_weights_per_dataset(priors, num_classes, cfg) ==
    IF priors = <<>>
    THEN [k \in 1..num_classes |-> Frac(1, 1)]
    ELSE [k \in 1..num_classes |->
            clamp(Reciprocal(Frac(priors[k] * cfg.ims_per_batch * cfg.batch_size_per_image,
                                  PriorDen)),
                  cfg.action_cls_weights[1], cfg.action_cls_weights[2])]

\* lines 348-361: pos_weights after the loop over the first n datasets
RECURSIVE Accumulated(_, _)
Accumulated(cfg, n) ==
    IF n = 0 THEN [k \in 1..cfg.num_classes |-> Frac(0, 1)]
    ELSE LET before == Accumulated(cfg, n - 1)
             more == pos_weights_per_dataset(cfg.priors[n], cfg.num_classes, cfg)
         IN  [k \in 1..cfg.num_classes |-> FracAdd(before[k], more[k])]

\* lines 346-364: the "pos_weights" entry of the returned dict
from_config(cfg) ==
    LET total == Accumulated(cfg, Len(cfg.priors))
        G == Len(cfg.priors)
    IN  IF G # 0
        THEN [k \in 1..cfg.num_classes |-> Frac(total[k].num, total[k].den * G)]
        ELSE total

\* configurations: G datasets, each with K recorded priors or none
InitWeights ==
    /\ pc = "call"
    /\ ret = "none"
    /\ storage = <<>>
    /\ \E G \in 0..MaxDatasets, K \in 1..MaxActions :
         /\ G * K <= MaxLabels
         /\ \E priors \in [1..G -> {<<>>} \cup [1..K -> PriorNums]],
               ims \in {1, 2}, bs \in {1, 3},
               bounds \in {<<1, 4>>, <<2, 3>>} :
              call = [num_classes |-> K, priors |-> priors,
                      ims_per_batch |-> ims, batch_size_per_image |-> bs,
                      action_cls_weights |-> bounds]

\* HoiOutputLayers.from_config(cfg, input_shape), start to return
FromConfig ==
    /\ pc = "call"
    /\ ret' = [raised |-> FALSE, pos_weights |-> from_config(call)]
    /\ pc' = "done"
    /\ UNCHANGED <<call, storage>>

NextWeights == FromConfig

SpecWeights == InitWeights /\ [][NextWeights]_vars

\* what the claim says dataset d contributes to class k: 1 without recorded
\* priors; else 1 / (prior * images_per_batch * batch_size_per_image) held
\* inside [min, max], a zero prior giving max
Contribution(cfg, d, k) ==
    LET lo == cfg.action_cls_weights[1]
        hi == cfg.action_cls_weights[2]
        s == cfg.priors[d][k] * cfg.ims_per_batch * cfg.batch_size_per_image
    IN  IF cfg.priors[d] = <<>> THEN Frac(1, 1)
        ELSE IF s = 0 THEN Frac(hi, 1)
        ELSE IF PriorDen < lo * s THEN Frac(lo, 1)
        ELSE IF PriorDen > hi * s THEN Frac(hi, 1)
        ELSE Frac(PriorDen, s)

RECURSIVE ContributionSum(_, _, _)
ContributionSum(cfg, n, k) ==
    IF n = 0 THEN Frac(0, 1)
    ELSE FracAdd(Contribution(cfg, n, k), ContributionSum(cfg, n - 1, k))

\* C9: for G >= 1 datasets the positive weight of every class is the sum of
\* the datasets' contributions divided by G; a dataset with priors
\* contributes 1/(prior * images_per_batch * batch_size_per_image) clamped
\* into [min, max] (max for a zero prior), a dataset without priors
\* contributes 1.0 whatever [min, max] is.
C9_AverageOfContributions ==
    (pc = "done" /\ Len(call.priors) >= 1) =>
        \A k \in 1..call.num_classes :
            LET total == ContributionSum(call, Len(call.priors), k)
            IN  FracEq(ret.pos_weights[k],
                       Frac(total.num, total.den * Len(call.priors)))

\* C9 witness: two datasets, one without priors and one with a zero prior,
\* under bounds [2, 3] that exclude the uniform weight 1.0
C9_Witness ==
    /\ pc = "done"
    /\ Len(call.priors) = 2
    /\ call.priors[1] = <<>>
    /\ call.priors[2] # <<>>
    /\ call.priors[2][1] = 0
    /\ call.action_cls_weights = <<2, 3>>
    /\ FracEq(ret.pos_weights[1], Frac(2, 1))

====
